---- MODULE Spec2Model ----
(***************************************************************************)
(* State-machine model of the spark_chain_tge program                      *)
(* (programs/spark_chain_tge/src/lib.rs).                                  *)
(*                                                                         *)
(* Machine words are scaled: a u64 holds 0..U64_MAX and a u128 holds       *)
(* 0..U128_MAX = (U64_MAX+1)^2 - 1, so that u64*u64 always fits a u128 as  *)
(* in the source, and PRECISION_FACTOR (10^9 in the source) is scaled to   *)
(* the same word.  Every arithmetic step keeps the source's form: checked  *)
(* operations fail above the word, `as u64` reduces modulo the word, and   *)
(* the unchecked `+=` either panics or wraps according to the build        *)
(* profile (overflow_checks).                                              *)
(***************************************************************************)
EXTENDS Integers, Sequences, FiniteSets, TLC

\* ------------------------------------------------------------------ bounds
U64_MAX == 3          \* largest value of the scaled u64 word
MaxNonce == 2         \* largest nonce a proof carries
MaxTime == 1          \* the clock runs 0..MaxTime
TokenSupply == 2      \* tokens the authority holds to fund the vault

\* --------------------------------------------------------------- constants
PRECISION_FACTOR == 2 \* lib.rs:7, scaled with the word (half of its bits)
RentExemptMinimum == 1 \* Rent::minimum_balance of the distribution account

U128_MAX == (U64_MAX + 1) * (U64_MAX + 1) - 1
U64_MOD == U64_MAX + 1

Identities == {"alice", "bob"}        \* signers: users and authorities
Deployers == {"alice"}                \* who creates the distribution ledger
\* The `+=` and `-=` of the source panic on overflow when the program is built
\* with overflow-checks (TRUE) and wrap when it is not (FALSE).
BuildProfiles == BOOLEAN
BackendKeys == {"bk1", "bk2"}         \* backend service public keys
NoKey == "none"

Rates == {U64_MAX}
Targets == {0, 2}
Times == 1..(MaxTime + 1)             \* end times and proof expiries
PointsArgs == {U64_MAX - 1, U64_MAX}
SolArgs == {1, U64_MAX}
NonceArgs == 0..MaxNonce
FundArgs == {1, 2}
WithdrawArgs == {1, U64_MAX - 1}  \* amounts the lamport supply allows

VARIABLES
    ds,               \* DistributionState account (+ its lamports)
    ba,               \* BackendAuthority account
    uc,               \* UserCommitment accounts, by user
    vault,            \* the token vault (SPL token account owned by the ledger)
    funder_tokens,    \* token balance of the authority's token account
    now,              \* Clock::get().unix_timestamp
    claimed_total,    \* sum of the amounts transferred by successful claim_tokens
    committed_total,  \* sum of the sol_amount arguments of accepted commits
    accepted,         \* nonces of the accepted commits, in acceptance order
    latched,          \* a commit has taken total_sol_raised to the target
    canonicalized     \* two argument tuples and their proof messages

vars == <<ds, ba, uc, vault, funder_tokens, now,
          claimed_total, committed_total, accepted, latched, canonicalized>>

ledger == <<ds, ba, uc, vault>>

ghosts == <<claimed_total, committed_total, accepted, latched, canonicalized>>

\* ---------------------------------------------------------------- accounts
DistributionState(initialized, authority, total_token_pool, total_score, is_active, commit_end_time, rate, target_raise_sol, total_sol_raised, lamports) ==
    [initialized |-> initialized, authority |-> authority,
     total_token_pool |-> total_token_pool, total_score |-> total_score,
     is_active |-> is_active, commit_end_time |-> commit_end_time, rate |-> rate,
     target_raise_sol |-> target_raise_sol, total_sol_raised |-> total_sol_raised,
     lamports |-> lamports]

BackendAuthority(initialized, authority, backend_pubkey, is_active, nonce_counter) ==
    [initialized |-> initialized, authority |-> authority,
     backend_pubkey |-> backend_pubkey, is_active |-> is_active,
     nonce_counter |-> nonce_counter]

UserCommitment(initialized, points, sol_amount, score, tokens_claimed) ==
    [initialized |-> initialized, points |-> points, sol_amount |-> sol_amount,
     score |-> score, tokens_claimed |-> tokens_claimed]

TokenAccount(initialized, amount) == [initialized |-> initialized, amount |-> amount]

\* the accounts and the clock before any call
InitAccounts ==
    /\ ds = DistributionState(FALSE, NoKey, 0, 0, FALSE, 0, 0, 0, 0, 0)
    /\ ba = BackendAuthority(FALSE, NoKey, NoKey, FALSE, 0)
    /\ uc = [u \in Identities |-> UserCommitment(FALSE, 0, 0, 0, FALSE)]
    /\ vault = TokenAccount(FALSE, 0)
    /\ funder_tokens = TokenSupply
    /\ now = 0
    /\ claimed_total = 0
    /\ committed_total = 0
    /\ accepted = <<>>
    /\ latched = FALSE

Init == InitAccounts /\ canonicalized = <<>>

\* -------------------------------------------------------- proof canonicalizer
KeyCode(k) ==
    CASE k = "alice" -> 1 [] k = "bob" -> 2 [] k = "bk1" -> 3 [] k = "bk2" -> 4
      [] OTHER -> 0

\* Pubkey::to_bytes: 32 bytes
to_bytes(k) == [i \in 1..32 |-> KeyCode(k)]

\* faulty variant of le_bytes: n bytes, high first
RECURSIVE be_bytes(_, _)
be_bytes(x, n) == IF n = 0 THEN <<>> ELSE be_bytes(x \div 256, n - 1) \o <<x % 256>>

\* u64::to_le_bytes / i64::to_le_bytes of a non-negative value: n bytes, low first
RECURSIVE le_bytes(_, _)
le_bytes(x, n) == IF n = 0 THEN <<>> ELSE <<x % 256>> \o le_bytes(x \div 256, n - 1)

to_le_bytes(x) == le_bytes(x, 8)

\* u64::from_le_bytes of 8 bytes, for the values below 2^24
from_le_bytes(b) ==
    IF \E i \in 4..8 : b[i] # 0 THEN -1
    ELSE b[1] + 256 * b[2] + 65536 * b[3]

\* b"POINTS_DEDUCTION_PROOF:"
PROOF_TAG == <<80, 79, 73, 78, 84, 83, 95, 68, 69, 68, 85, 67, 84, 73, 79, 78, 95,
               80, 82, 79, 79, 70, 58>>

\* the 79 bytes: tag, user, points, nonce, expiry
proof_message_bytes(user, points, nonce, expiry) ==
    PROOF_TAG \o to_bytes(user) \o to_le_bytes(points) \o to_le_bytes(nonce)
        \o to_le_bytes(expiry)

\* proof_message_bytes tabulated over the arguments in use
ProofMessages ==
    [user \in Identities, points \in 0..U64_MAX, nonce \in NonceArgs, expiry \in Times
        |-> proof_message_bytes(user, points, nonce, expiry)]

create_proof_message(user, points, nonce, expiry) ==
    ProofMessages[user, points, nonce, expiry]

\* ------------------------------------------------------ signature primitive
\* A signature is known by the key that made it and the message it covers;
\* Garbage is 64 bytes nobody signed.
Sign(key, message) == [signer |-> key, message |-> message]
Garbage == [signer |-> NoKey, message |-> <<>>]

\* ed25519 verification of (pubkey bytes, signature, message)
verify_signature(pubkey, signature, message) ==
    /\ signature.signer # NoKey
    /\ to_bytes(signature.signer) = pubkey
    /\ signature.message = message

\* ------------------------------------------------- instructions of the batch
ED25519_ID == "Ed25519SigVerify"
PROGRAM_ID == "spark_chain_tge"

\* An instruction of the Ed25519 program.  data_len is data.len(); pubkey,
\* signature and message are data[16..48], data[48..112] and data[112..];
\* header says where the offsets in data[2..16] point: "fixed" at those same
\* fixed positions, "elsewhere" at the triple `elsewhere` (other bytes of the
\* batch).
Ed25519Ix(num_signatures, data_len, header, pubkey, signature, message, elsewhere) ==
    [program_id |-> ED25519_ID, num_signatures |-> num_signatures,
     data_len |-> data_len, header |-> header, pubkey |-> pubkey,
     signature |-> signature, message |-> message, elsewhere |-> elsewhere]

NoTriple == <<Garbage, to_bytes(NoKey), <<>>>>

\* the commit instruction itself, as it appears in the batch
SelfIx ==
    [program_id |-> PROGRAM_ID, num_signatures |-> 0, data_len |-> 0,
     header |-> "fixed", pubkey |-> to_bytes(NoKey), signature |-> Garbage,
     message |-> <<>>, elsewhere |-> NoTriple]

\* The (signature, public key, message) the Ed25519 program validated when it
\* executed ix: the bytes its header offsets point at.
ValidatedTriple(ix) ==
    IF ix.header = "fixed" THEN <<ix.signature, ix.pubkey, ix.message>>
    ELSE ix.elsewhere

\* An Ed25519 instruction earlier in the batch has executed successfully.
Executed(ix) ==
    (ix.program_id = ED25519_ID /\ ix.num_signatures = 1 /\ ix.data_len >= 112)
        => LET t == ValidatedTriple(ix) IN verify_signature(t[2], t[1], t[3])

NotFound == [program_id |-> "none"]

\* faulty variant of search_backwards: the Ed25519 instruction of the lowest
\* index is found
RECURSIVE search_from_start(_, _)
search_from_start(tx, i) ==
    IF i < 0 THEN NotFound
    ELSE LET earlier == search_from_start(tx, i - 1)
         IN  IF earlier # NotFound THEN earlier
             ELSE IF tx[i + 1].program_id = ED25519_ID THEN tx[i + 1]
             ELSE NotFound

\* for i in (0..current_index).rev(): the first Ed25519 instruction found
RECURSIVE search_backwards(_, _)
search_backwards(tx, i) ==
    IF i < 0 THEN NotFound
    ELSE IF tx[i + 1].program_id = ED25519_ID THEN tx[i + 1]
    ELSE search_backwards(tx, i - 1)

\* faulty variant of verify_ed25519_signature: data[112..] is not compared
verify_ed25519_ignoring_message(signature, message, pubkey, instructions) ==
    LET ed25519_ix == search_backwards(instructions.tx, instructions.current_index - 1)
    IN  IF ed25519_ix = NotFound THEN "Ed25519VerificationFailed"
        ELSE IF ed25519_ix.data_len < 2 THEN "Ed25519VerificationFailed"
        ELSE IF ed25519_ix.num_signatures # 1 THEN "Ed25519VerificationFailed"
        ELSE IF ed25519_ix.data_len < 112 THEN "Ed25519VerificationFailed"
        ELSE IF ed25519_ix.signature # signature THEN "Ed25519VerificationFailed"
        ELSE IF ed25519_ix.pubkey # to_bytes(pubkey) THEN "Ed25519VerificationFailed"
        ELSE "Ok"

verify_ed25519_signature(signature, message, pubkey, instructions) ==
    LET ed25519_ix == search_backwards(instructions.tx, instructions.current_index - 1)
    IN  IF ed25519_ix = NotFound THEN "Ed25519VerificationFailed"
        ELSE IF ed25519_ix.data_len < 2 THEN "Ed25519VerificationFailed"
        ELSE IF ed25519_ix.num_signatures # 1 THEN "Ed25519VerificationFailed"
        ELSE IF ed25519_ix.data_len < 112 THEN "Ed25519VerificationFailed"
        ELSE IF ed25519_ix.signature # signature THEN "Ed25519VerificationFailed"
        ELSE IF ed25519_ix.pubkey # to_bytes(pubkey) THEN "Ed25519VerificationFailed"
        ELSE IF ed25519_ix.message # message THEN "Ed25519VerificationFailed"
        ELSE "Ok"

\* -------------------------------------------------------------- arithmetic
Some(v) == [some |-> TRUE, value |-> v]
NoValue == [some |-> FALSE, value |-> 0]

\* faulty variant of checked_add: the sum wraps instead of failing
wrapping_add(a, b) == Some((a + b) % U64_MOD)

\* u64::checked_add
checked_add(a, b) == IF a + b > U64_MAX THEN NoValue ELSE Some(a + b)

\* u128::checked_mul of two u64 values widened to u128
checked_mul(a, b) == IF a * b > U128_MAX THEN NoValue ELSE Some(a * b)

\* `x as u64` of a u128
as_u64(x) == x % U64_MOD

\* the `+` and `+=` of u64: panics (NoValue) or wraps on overflow
add(a, b, overflow_checks) ==
    IF a + b <= U64_MAX THEN Some(a + b)
    ELSE IF overflow_checks THEN NoValue
    ELSE Some((a + b) % U64_MOD)

\* the `-=` of u64: panics (NoValue) or wraps below zero
sub(a, b, overflow_checks) ==
    IF a >= b THEN Some(a - b)
    ELSE IF overflow_checks THEN NoValue
    ELSE Some(a - b + U64_MOD)

\* ---------------------------------------------------------------- handlers
\* What a handler hands back: its result and the accounts as the handler left
\* them in memory (on an error, whatever it had already assigned).  amount is
\* what it transferred; exceeded tells that the true result of some addition,
\* multiplication or narrowing it performed was above the word.
Outcome(err, d, b, u, v, amount, exceeded) ==
    [err |-> err, ds |-> d, ba |-> b, uc |-> u, vault |-> v,
     amount |-> amount, exceeded |-> exceeded]

Fail(err) == Outcome(err, ds, ba, uc, vault, 0, FALSE)

initialize_handler(authority, commit_end_time, rate, target_raise_sol) ==
    IF ds.initialized THEN Fail("AccountAlreadyInUse")
    ELSE Outcome("Ok",
                 DistributionState(TRUE, authority, 0, 0, TRUE, commit_end_time, rate,
                                   target_raise_sol, 0, RentExemptMinimum),
                 ba, uc, vault, 0, FALSE)

\* faulty variant of set_commit_end_time_handler: the caller is not compared
\* with the authority
set_commit_end_time_by_anyone(authority, new_end_time) ==
    IF ~ds.initialized THEN Fail("AccountNotInitialized")
    ELSE Outcome("Ok", [ds EXCEPT !.commit_end_time = new_end_time],
                 ba, uc, vault, 0, FALSE)

\* faulty variant of set_commit_end_time_handler: a later end time reopens the
\* distribution
set_commit_end_time_reopening(authority, new_end_time) ==
    IF ~ds.initialized THEN Fail("AccountNotInitialized")
    ELSE IF authority # ds.authority THEN Fail("ConstraintHasOne")
    ELSE Outcome("Ok", [ds EXCEPT !.commit_end_time = new_end_time,
                                  !.is_active = (ds.is_active \/ new_end_time > now)],
                 ba, uc, vault, 0, FALSE)

set_commit_end_time_handler(authority, new_end_time) ==
    IF ~ds.initialized THEN Fail("AccountNotInitialized")
    ELSE IF authority # ds.authority THEN Fail("ConstraintHasOne")
    ELSE IF ~(authority = ds.authority) THEN Fail("Unauthorized")
    ELSE Outcome("Ok", [ds EXCEPT !.commit_end_time = new_end_time],
                 ba, uc, vault, 0, FALSE)

\* faulty variant of withdraw_sol_at: the withdrawal is taken off total_sol_raised
withdraw_sol_reducing_raised(authority, amount, overflow_checks) ==
    IF ~ds.initialized THEN Fail("AccountNotInitialized")
    ELSE IF authority # ds.authority THEN Fail("ConstraintHasOne")
    ELSE
        LET commit_period_ended == now >= ds.commit_end_time
            target_reached == ds.total_sol_raised >= ds.target_raise_sol
            needed == add(amount, RentExemptMinimum, overflow_checks)
            remaining == sub(ds.lamports, amount, overflow_checks)
            raised == sub(ds.total_sol_raised, amount, FALSE)
        IN  IF ~(commit_period_ended \/ target_reached)
            THEN Fail("WithdrawConditionsNotMet")
            ELSE IF ~needed.some THEN Fail("ProgramPanic")
            ELSE IF ~(ds.lamports >= needed.value) THEN Fail("InsufficientBalance")
            ELSE IF ~remaining.some THEN Fail("ProgramPanic")
            ELSE Outcome("Ok", [ds EXCEPT !.lamports = remaining.value,
                                          !.total_sol_raised = raised.value],
                         ba, uc, vault, amount, FALSE)

withdraw_sol_at(authority, amount, overflow_checks) ==
    IF ~ds.initialized THEN Fail("AccountNotInitialized")
    ELSE IF authority # ds.authority THEN Fail("ConstraintHasOne")
    ELSE IF ~(authority = ds.authority) THEN Fail("Unauthorized")
    ELSE
        LET commit_period_ended == now >= ds.commit_end_time
            target_reached == ds.total_sol_raised >= ds.target_raise_sol
            needed == add(amount, RentExemptMinimum, overflow_checks)
            remaining == sub(ds.lamports, amount, overflow_checks)
        IN  IF ~(commit_period_ended \/ target_reached)
            THEN Fail("WithdrawConditionsNotMet")
            ELSE IF ~needed.some THEN Fail("ProgramPanic")
            ELSE IF ~(ds.lamports >= needed.value) THEN Fail("InsufficientBalance")
            ELSE IF ~remaining.some THEN Fail("ProgramPanic")
            ELSE Outcome("Ok", [ds EXCEPT !.lamports = remaining.value],
                         ba, uc, vault, amount, FALSE)

withdraw_sol_handler(authority, amount) ==
    {withdraw_sol_at(authority, amount, b) : b \in BuildProfiles}

\* faulty variant of token_share: the division comes before the multiplication
token_share_divide_first(total_token_pool, score, total_score) ==
    IF total_score = 0 THEN NoValue
    ELSE Some(as_u64((total_token_pool \div total_score) * score))

\* faulty variant of token_share: the quotient is rounded up
token_share_rounding_up(total_token_pool, score, total_score) ==
    IF total_score = 0 THEN NoValue
    ELSE Some(as_u64((total_token_pool * score + total_score - 1) \div total_score))

\* token_amount = (total_token_pool * score / total_score) as u64
token_share(total_token_pool, score, total_score) ==
    LET numerator == checked_mul(total_token_pool, score)
    IN  IF ~numerator.some \/ total_score = 0 THEN NoValue
        ELSE Some(as_u64(numerator.value \div total_score))

\* faulty variant of claim_tokens_handler: tokens_claimed is never looked at
claim_tokens_ignoring_flag(user) ==
    IF ~uc[user].initialized \/ ~ds.initialized \/ ~vault.initialized
    THEN Fail("AccountNotInitialized")
    ELSE IF ~(ds.total_score > 0) THEN Fail("NoCommitments")
    ELSE
        LET token_amount == token_share(ds.total_token_pool, uc[user].score,
                                        ds.total_score)
        IN  IF ~token_amount.some THEN Fail("CalculationOverflow")
            ELSE IF vault.amount < token_amount.value THEN Fail("InsufficientFunds")
            ELSE Outcome("Ok", ds, ba, [uc EXCEPT ![user].tokens_claimed = TRUE],
                         [vault EXCEPT !.amount = vault.amount - token_amount.value],
                         token_amount.value, FALSE)

\* faulty variant of claim_tokens_handler: claims wait for the distribution to close
claim_tokens_after_close(user) ==
    IF ~uc[user].initialized \/ ~ds.initialized \/ ~vault.initialized
    THEN Fail("AccountNotInitialized")
    ELSE IF ds.is_active /\ now < ds.commit_end_time THEN Fail("DistributionNotActive")
    ELSE IF uc[user].tokens_claimed THEN Fail("AlreadyClaimed")
    ELSE IF ~(ds.total_score > 0) THEN Fail("NoCommitments")
    ELSE
        LET token_amount == token_share(ds.total_token_pool, uc[user].score,
                                        ds.total_score)
        IN  IF ~token_amount.some THEN Fail("CalculationOverflow")
            ELSE IF vault.amount < token_amount.value THEN Fail("InsufficientFunds")
            ELSE Outcome("Ok", ds, ba, [uc EXCEPT ![user].tokens_claimed = TRUE],
                         [vault EXCEPT !.amount = vault.amount - token_amount.value],
                         token_amount.value, FALSE)

claim_tokens_handler(user) ==
    IF ~uc[user].initialized \/ ~ds.initialized \/ ~vault.initialized
    THEN Fail("AccountNotInitialized")
    ELSE IF uc[user].tokens_claimed THEN Fail("AlreadyClaimed")
    ELSE IF ~(ds.total_score > 0) THEN Fail("NoCommitments")
    ELSE
        LET token_amount == token_share(ds.total_token_pool, uc[user].score,
                                        ds.total_score)
        IN  IF ~token_amount.some THEN Fail("CalculationOverflow")
            ELSE IF vault.amount < token_amount.value THEN Fail("InsufficientFunds")
            ELSE Outcome("Ok", ds, ba, [uc EXCEPT ![user].tokens_claimed = TRUE],
                         [vault EXCEPT !.amount = vault.amount - token_amount.value],
                         token_amount.value, FALSE)

create_token_vault_handler(authority) ==
    IF ~ds.initialized THEN Fail("AccountNotInitialized")
    ELSE IF vault.initialized THEN Fail("AccountAlreadyInUse")
    ELSE
        LET \* `init` of the vault account comes first in the accounts struct
            created == TokenAccount(TRUE, 0)
        IN  IF authority # ds.authority
            THEN Outcome("ConstraintHasOne", ds, ba, uc, created, 0, FALSE)
            ELSE IF ~(authority = ds.authority)
            THEN Outcome("Unauthorized", ds, ba, uc, created, 0, FALSE)
            ELSE Outcome("Ok", ds, ba, uc, created, 0, FALSE)

\* distribution_state.total_token_pool = amount
pool_after_funding(total_token_pool, amount) == amount

fund_vault_handler(authority, amount) ==
    IF ~ds.initialized \/ ~vault.initialized THEN Fail("AccountNotInitialized")
    ELSE IF authority # ds.authority THEN Fail("ConstraintHasOne")
    ELSE IF ~(authority = ds.authority) THEN Fail("Unauthorized")
    ELSE IF funder_tokens < amount THEN Fail("InsufficientFunds")
    ELSE Outcome("Ok",
                 [ds EXCEPT !.total_token_pool =
                                pool_after_funding(ds.total_token_pool, amount)],
                 ba, uc, [vault EXCEPT !.amount = vault.amount + amount], amount, FALSE)

initialize_backend_authority_handler(authority, backend_pubkey) ==
    IF ba.initialized THEN Fail("AccountAlreadyInUse")
    ELSE Outcome("Ok", ds, BackendAuthority(TRUE, authority, backend_pubkey, TRUE, 0),
                 uc, vault, 0, FALSE)

update_backend_authority_handler(authority, is_active) ==
    IF ~ba.initialized THEN Fail("AccountNotInitialized")
    ELSE IF authority # ba.authority THEN Fail("ConstraintHasOne")
    ELSE IF ~(authority = ba.authority) THEN Fail("Unauthorized")
    ELSE Outcome("Ok", ds, [ba EXCEPT !.is_active = is_active], uc, vault,
                 0, FALSE)

\* faulty variant of update_backend_pubkey: the rotation starts the nonces over
update_backend_pubkey_resetting_nonce(authority, new_backend_pubkey) ==
    IF ~ba.initialized THEN Fail("AccountNotInitialized")
    ELSE IF authority # ba.authority THEN Fail("ConstraintHasOne")
    ELSE Outcome("Ok", ds,
                 [ba EXCEPT !.backend_pubkey = new_backend_pubkey, !.nonce_counter = 0],
                 uc, vault, 0, FALSE)

update_backend_pubkey_handler(authority, new_backend_pubkey) ==
    IF ~ba.initialized THEN Fail("AccountNotInitialized")
    ELSE IF authority # ba.authority THEN Fail("ConstraintHasOne")
    ELSE IF ~(authority = ba.authority) THEN Fail("Unauthorized")
    ELSE Outcome("Ok", ds, [ba EXCEPT !.backend_pubkey = new_backend_pubkey], uc,
                 vault, 0, FALSE)

\* faulty variant of nonce_is_valid: `>=` for `>`
nonce_not_below(nonce, nonce_counter) == nonce >= nonce_counter

\* require!(nonce > backend_auth.nonce_counter, InvalidNonce)
nonce_is_valid(nonce, nonce_counter) == nonce > nonce_counter

\* faulty variant of advance_nonce: the counter is left as it was
keep_nonce_counter(b, nonce) == b

\* backend_auth.nonce_counter = nonce
advance_nonce(b, nonce) == [b EXCEPT !.nonce_counter = nonce]

\* user_commitment.tokens_claimed = false
claimed_after_commit(tokens_claimed) == FALSE

\* faulty variant of latch_on_target: the distribution is left open
latch_never(d) == d

\* faulty variant of latch_on_target: `>` for `>=`
latch_above_target(d) ==
    IF d.total_sol_raised > d.target_raise_sol THEN [d EXCEPT !.is_active = FALSE]
    ELSE d

\* if total_sol_raised >= target_raise_sol { is_active = false }
latch_on_target(d) ==
    IF d.total_sol_raised >= d.target_raise_sol THEN [d EXCEPT !.is_active = FALSE]
    ELSE d

\* faulty variant of score_of: the score is the points deducted
score_from_points(points, sol_amount) == points

\* let score = sol_amount
score_of(points, sol_amount) == sol_amount

\* faulty variant of total_score_after: the total is assigned, not accumulated
total_score_replaced(total_score, score) == Some(score)

\* distribution_state.total_score.checked_add(score)
total_score_after(total_score, score) == checked_add(total_score, score)

\* faulty variant of commit_resources_at: the expiry is checked before the nonce
commit_resources_expiry_first(user, points, sol_amount, backend_signature, nonce, expiry, instructions, overflow_checks) ==
    LET \* init_if_needed: the record is created zeroed before the handler runs
        uc0 == [uc EXCEPT ![user].initialized = TRUE]
        user_commitment == uc0[user]
        stop(err, d, b, u, exceeded) == Outcome(err, d, b, u, vault, 0, exceeded)
        message == create_proof_message(user, points, nonce, expiry)
    IN
    IF ~ba.initialized \/ ~ds.initialized THEN Fail("AccountNotInitialized")
    ELSE IF ~ba.is_active THEN stop("BackendInactive", ds, ba, uc0, FALSE)
    ELSE IF ~(expiry > now) THEN stop("ProofExpired", ds, ba, uc0, FALSE)
    ELSE IF ~nonce_is_valid(nonce, ba.nonce_counter)
         THEN stop("InvalidNonce", ds, ba, uc0, FALSE)
    ELSE IF verify_ed25519_signature(backend_signature, message, ba.backend_pubkey,
                                     instructions) # "Ok"
         THEN stop("Ed25519VerificationFailed", ds, ba, uc0, FALSE)
    ELSE IF ~ds.is_active THEN stop("DistributionNotActive", ds, ba, uc0, FALSE)
    ELSE IF ~(now < ds.commit_end_time) THEN stop("CommitPeriodEnded", ds, ba, uc0, FALSE)
    ELSE IF ~(ds.total_sol_raised < ds.target_raise_sol)
         THEN stop("TargetSolReached", ds, ba, uc0, FALSE)
    ELSE
    LET product == checked_mul(points, ds.rate)
        quotient == product.value \div PRECISION_FACTOR
        required_sol == as_u64(quotient)
        narrowed == quotient > U64_MAX
    IN
    IF ~product.some THEN stop("CalculationOverflow", ds, ba, uc0, TRUE)
    ELSE IF ~(sol_amount >= required_sol)
         THEN stop("InsufficientSolCommitment", ds, ba, uc0, narrowed)
    ELSE
    LET \* system_instruction::transfer(user -> distribution_state, sol_amount)
        d1 == [ds EXCEPT !.lamports = ds.lamports + sol_amount]
        score == score_of(points, sol_amount)
        points_sum == add(user_commitment.points, points, overflow_checks)
        sol_sum == add(user_commitment.sol_amount, sol_amount, overflow_checks)
        score_sum == checked_add(user_commitment.score, score)
        u1 == [uc0 EXCEPT ![user].points = points_sum.value]
        u2 == [u1 EXCEPT ![user].sol_amount = sol_sum.value]
        u3 == [u2 EXCEPT ![user].score = score_sum.value,
                         ![user].tokens_claimed =
                             claimed_after_commit(user_commitment.tokens_claimed)]
        wrapped == \/ narrowed
                   \/ user_commitment.points + points > U64_MAX
                   \/ user_commitment.sol_amount + sol_amount > U64_MAX
        total_score_sum == total_score_after(ds.total_score, score)
        total_sol_sum == checked_add(ds.total_sol_raised, sol_amount)
        d2 == [d1 EXCEPT !.total_score = total_score_sum.value]
        d3 == [d2 EXCEPT !.total_sol_raised = total_sol_sum.value]
        b1 == advance_nonce(ba, nonce)
        d4 == latch_on_target(d3)
    IN
    IF ~points_sum.some THEN stop("ProgramPanic", d1, ba, uc0, TRUE)
    ELSE IF ~sol_sum.some THEN stop("ProgramPanic", d1, ba, u1, TRUE)
    ELSE IF ~score_sum.some THEN stop("CalculationOverflow", d1, ba, u2, TRUE)
    ELSE IF ~total_score_sum.some THEN stop("CalculationOverflow", d1, ba, u3, TRUE)
    ELSE IF ~total_sol_sum.some THEN stop("CalculationOverflow", d2, ba, u3, TRUE)
    ELSE stop("Ok", d4, b1, u3, wrapped)

commit_resources_at(user, points, sol_amount, backend_signature, nonce, expiry, instructions, overflow_checks) ==
    LET \* init_if_needed: the record is created zeroed before the handler runs
        uc0 == [uc EXCEPT ![user].initialized = TRUE]
        user_commitment == uc0[user]
        stop(err, d, b, u, exceeded) == Outcome(err, d, b, u, vault, 0, exceeded)
        message == create_proof_message(user, points, nonce, expiry)
    IN
    IF ~ba.initialized \/ ~ds.initialized THEN Fail("AccountNotInitialized")
    ELSE IF ~ba.is_active THEN stop("BackendInactive", ds, ba, uc0, FALSE)
    ELSE IF ~nonce_is_valid(nonce, ba.nonce_counter)
         THEN stop("InvalidNonce", ds, ba, uc0, FALSE)
    ELSE IF ~(expiry > now) THEN stop("ProofExpired", ds, ba, uc0, FALSE)
    ELSE IF verify_ed25519_signature(backend_signature, message, ba.backend_pubkey,
                                     instructions) # "Ok"
         THEN stop("Ed25519VerificationFailed", ds, ba, uc0, FALSE)
    ELSE IF ~ds.is_active THEN stop("DistributionNotActive", ds, ba, uc0, FALSE)
    ELSE IF ~(now < ds.commit_end_time) THEN stop("CommitPeriodEnded", ds, ba, uc0, FALSE)
    ELSE IF ~(ds.total_sol_raised < ds.target_raise_sol)
         THEN stop("TargetSolReached", ds, ba, uc0, FALSE)
    ELSE
    LET product == checked_mul(points, ds.rate)
        quotient == product.value \div PRECISION_FACTOR
        required_sol == as_u64(quotient)
        narrowed == quotient > U64_MAX
    IN
    IF ~product.some THEN stop("CalculationOverflow", ds, ba, uc0, TRUE)
    ELSE IF ~(sol_amount >= required_sol)
         THEN stop("InsufficientSolCommitment", ds, ba, uc0, narrowed)
    ELSE
    LET \* system_instruction::transfer(user -> distribution_state, sol_amount)
        d1 == [ds EXCEPT !.lamports = ds.lamports + sol_amount]
        score == score_of(points, sol_amount)
        points_sum == add(user_commitment.points, points, overflow_checks)
        sol_sum == add(user_commitment.sol_amount, sol_amount, overflow_checks)
        score_sum == checked_add(user_commitment.score, score)
        u1 == [uc0 EXCEPT ![user].points = points_sum.value]
        u2 == [u1 EXCEPT ![user].sol_amount = sol_sum.value]
        u3 == [u2 EXCEPT ![user].score = score_sum.value,
                         ![user].tokens_claimed =
                             claimed_after_commit(user_commitment.tokens_claimed)]
        wrapped == \/ narrowed
                   \/ user_commitment.points + points > U64_MAX
                   \/ user_commitment.sol_amount + sol_amount > U64_MAX
        total_score_sum == total_score_after(ds.total_score, score)
        total_sol_sum == checked_add(ds.total_sol_raised, sol_amount)
        d2 == [d1 EXCEPT !.total_score = total_score_sum.value]
        d3 == [d2 EXCEPT !.total_sol_raised = total_sol_sum.value]
        b1 == advance_nonce(ba, nonce)
        d4 == latch_on_target(d3)
    IN
    IF ~points_sum.some THEN stop("ProgramPanic", d1, ba, uc0, TRUE)
    ELSE IF ~sol_sum.some THEN stop("ProgramPanic", d1, ba, u1, TRUE)
    ELSE IF ~score_sum.some THEN stop("CalculationOverflow", d1, ba, u2, TRUE)
    ELSE IF ~total_score_sum.some THEN stop("CalculationOverflow", d1, ba, u3, TRUE)
    ELSE IF ~total_sol_sum.some THEN stop("CalculationOverflow", d2, ba, u3, TRUE)
    ELSE stop("Ok", d4, b1, u3, wrapped)

commit_resources_handler(user, points, sol_amount, backend_signature, nonce, expiry, instructions) ==
    {commit_resources_at(user, points, sol_amount, backend_signature, nonce, expiry,
                         instructions, b) : b \in BuildProfiles}

\* ----------------------------------------------------------------- actions
\* faulty variant of Persisted: the accounts are written back whatever the result
written_back(r) == [ds |-> r.ds, ba |-> r.ba, uc |-> r.uc, vault |-> r.vault]

\* What the chain keeps of a call: the accounts the handler wrote when it
\* returned Ok; on an error nothing is written back and the runtime reverts the
\* whole transaction.
Persisted(r) ==
    IF r.err = "Ok" THEN [ds |-> r.ds, ba |-> r.ba, uc |-> r.uc, vault |-> r.vault]
    ELSE [ds |-> ds, ba |-> ba, uc |-> uc, vault |-> vault]

\* A successful call is a step to what it persisted; a failed call is no step.
Persist(r) ==
    /\ r.err = "Ok"
    /\ ds' = Persisted(r).ds
    /\ ba' = Persisted(r).ba
    /\ uc' = Persisted(r).uc
    /\ vault' = Persisted(r).vault

initialize(authority, commit_end_time, rate, target_raise_sol) ==
    /\ Persist(initialize_handler(authority, commit_end_time, rate, target_raise_sol))
    /\ UNCHANGED <<funder_tokens, now, ghosts>>

set_commit_end_time(authority, new_end_time) ==
    /\ Persist(set_commit_end_time_handler(authority, new_end_time))
    /\ UNCHANGED <<funder_tokens, now, ghosts>>

withdraw_sol(authority, amount) ==
    \E r \in withdraw_sol_handler(authority, amount) :
        /\ Persist(r)
        /\ UNCHANGED <<funder_tokens, now, ghosts>>

claim_tokens(user) ==
    LET r == claim_tokens_handler(user)
    IN  /\ Persist(r)
        /\ claimed_total' = claimed_total + r.amount
        /\ UNCHANGED <<funder_tokens, now, committed_total, accepted, latched,
                     canonicalized>>

create_token_vault(authority) ==
    /\ Persist(create_token_vault_handler(authority))
    /\ UNCHANGED <<funder_tokens, now, ghosts>>

fund_vault(authority, amount) ==
    /\ Persist(fund_vault_handler(authority, amount))
    /\ funder_tokens' = funder_tokens - amount
    /\ UNCHANGED <<now, ghosts>>

initialize_backend_authority(authority, backend_pubkey) ==
    /\ Persist(initialize_backend_authority_handler(authority, backend_pubkey))
    /\ UNCHANGED <<funder_tokens, now, ghosts>>

update_backend_authority(authority, is_active) ==
    /\ Persist(update_backend_authority_handler(authority, is_active))
    /\ UNCHANGED <<funder_tokens, now, ghosts>>

update_backend_pubkey(authority, new_backend_pubkey) ==
    /\ Persist(update_backend_pubkey_handler(authority, new_backend_pubkey))
    /\ UNCHANGED <<funder_tokens, now, ghosts>>

commit_resources(user, points, sol_amount, backend_signature, nonce, expiry, instructions) ==
    \E r \in commit_resources_handler(user, points, sol_amount, backend_signature,
                                      nonce, expiry, instructions) :
        /\ Persist(r)
        /\ committed_total' = committed_total + sol_amount
        /\ accepted' = Append(accepted, nonce)
        /\ latched' = (latched \/ (ds.total_sol_raised < ds.target_raise_sol
                                   /\ r.ds.total_sol_raised >= ds.target_raise_sol))
        /\ UNCHANGED <<funder_tokens, now, claimed_total, canonicalized>>

\* the clock advances
Tick ==
    /\ now < MaxTime
    /\ now' = now + 1
    /\ UNCHANGED <<ledger, funder_tokens, ghosts>>

\* ------------------------------------------------ batches a caller can build
\* With the canonical message m of the call and the current backend key:
\*   honest      the backend's signature over m, verified at the fixed offsets
\*   other_proof a backend proof of a different message, verified at the fixed
\*               offsets, and that proof's signature supplied
\*   redirected  the fixed offsets hold the backend key, the supplied bytes and
\*               m, while the header points the Ed25519 program at a triple the
\*               caller signed with its own key
ProofKinds == {"honest", "other_proof", "redirected"}

Proof(kind, user, points, nonce, expiry) ==
    LET m == create_proof_message(user, points, nonce, expiry)
        m2 == create_proof_message(user, 0, nonce, expiry)
        pk == ba.backend_pubkey
        len == 112 + Len(m)
        own == <<Sign(user, m2), to_bytes(user), m2>>
    IN  CASE kind = "honest" ->
               [signature |-> Sign(pk, m),
                instructions |-> [current_index |-> 1,
                    tx |-> <<Ed25519Ix(1, len, "fixed", to_bytes(pk), Sign(pk, m), m,
                                       NoTriple), SelfIx>>]]
          [] kind = "other_proof" ->
               [signature |-> Sign(pk, m2),
                instructions |-> [current_index |-> 1,
                    tx |-> <<Ed25519Ix(1, len, "fixed", to_bytes(pk), Sign(pk, m2), m2,
                                       NoTriple), SelfIx>>]]
          [] kind = "redirected" ->
               [signature |-> Garbage,
                instructions |-> [current_index |-> 1,
                    tx |-> <<Ed25519Ix(1, len, "elsewhere", to_bytes(pk), Garbage, m,
                                       own), SelfIx>>]]

\* every Ed25519 instruction ahead of the commit has executed successfully
WellFormed(proof) ==
    \A i \in 1..proof.instructions.current_index : Executed(proof.instructions.tx[i])

\* the commit calls a caller can make
CommitCalls ==
    [user : Identities, points : PointsArgs, sol_amount : SolArgs, nonce : NonceArgs,
     expiry : Times, kind : ProofKinds]

ProofOf(c) == Proof(c.kind, c.user, c.points, c.nonce, c.expiry)

Next ==
    \/ \E a \in Deployers, t \in Times, r \in Rates, g \in Targets :
           initialize(a, t, r, g)
    \/ \E a \in Identities, t \in Times : set_commit_end_time(a, t)
    \/ \E a \in Identities, n \in WithdrawArgs : withdraw_sol(a, n)
    \/ \E u \in Identities : claim_tokens(u)
    \/ \E a \in Identities : create_token_vault(a)
    \/ \E a \in Identities, n \in FundArgs : fund_vault(a, n)
    \/ \E a \in Identities, k \in BackendKeys : initialize_backend_authority(a, k)
    \/ \E a \in Identities, b \in BOOLEAN : update_backend_authority(a, b)
    \/ \E a \in Identities, k \in BackendKeys : update_backend_pubkey(a, k)
    \/ \E c \in CommitCalls :
           /\ commit_resources(c.user, c.points, c.sol_amount, ProofOf(c).signature,
                               c.nonce, c.expiry, ProofOf(c).instructions)
           \* the commit runs only if the instructions ahead of it succeeded
           /\ WellFormed(ProofOf(c))
    \/ Tick

Spec == Init /\ [][Next]_vars

\* commits that deduct no points and contribute nothing
ZeroSolCalls ==
    [user : Identities, points : {0}, sol_amount : {0}, nonce : NonceArgs,
     expiry : Times, kind : ProofKinds]

\* the program with the commits that contribute nothing among its calls
NextZero ==
    \/ Next
    \/ \E c \in ZeroSolCalls :
           /\ commit_resources(c.user, c.points, c.sol_amount, ProofOf(c).signature,
                               c.nonce, c.expiry, ProofOf(c).instructions)
           /\ WellFormed(ProofOf(c))

SpecZero == Init /\ [][NextZero]_vars

\* the argument tuples of create_proof_message
ProofArgs == [user : Identities, points : 0..U64_MAX, nonce : NonceArgs, expiry : Times]

\* two argument tuples, not yet canonicalized
InitMessage ==
    /\ InitAccounts
    /\ \E t1 \in ProofArgs, t2 \in ProofArgs :
           canonicalized = [args |-> <<t1, t2>>, bytes |-> <<>>]

\* create_proof_message applied to the two argument tuples
canonicalize ==
    LET t == canonicalized.args
    IN  /\ canonicalized.bytes = <<>>
        /\ canonicalized' =
               [canonicalized EXCEPT !.bytes =
                   <<create_proof_message(t[1].user, t[1].points, t[1].nonce, t[1].expiry),
                     create_proof_message(t[2].user, t[2].points, t[2].nonce, t[2].expiry)>>]
        /\ UNCHANGED <<ledger, funder_tokens, now, claimed_total, committed_total,
                       accepted, latched>>

NextMessage == canonicalize

\* the canonicalizer alone, on every pair of argument tuples
SpecMessage == InitMessage /\ [][NextMessage]_vars

\* the outcomes the builds of the program give the commit call c
CommitOutcomes(c) ==
    commit_resources_handler(c.user, c.points, c.sol_amount, ProofOf(c).signature,
                             c.nonce, c.expiry, ProofOf(c).instructions)

\* The triple the Ed25519 program validated in the instruction the commit
\* located is the triple the commit expects.
ExpectedTripleValidated(c) ==
    LET instructions == ProofOf(c).instructions
        ix == search_backwards(instructions.tx, instructions.current_index - 1)
    IN  /\ ix # NotFound
        /\ ValidatedTriple(ix) =
               <<ProofOf(c).signature, to_bytes(ba.backend_pubkey),
                 create_proof_message(c.user, c.points, c.nonce, c.expiry)>>

Before == [ds |-> ds, ba |-> ba, uc |-> uc, vault |-> vault]

\* a call that returned an error has left the accounts as they were before it
NothingKeptOnError(r) == r.err # "Ok" => Persisted(r) = Before

RECURSIVE SumOver(_, _)
SumOver(f, S) ==
    IF S = {} THEN 0
    ELSE LET x == CHOOSE y \in S : TRUE IN f[x] + SumOver(f, S \ {x})

\* ------------------------------------------------------------------- claims

\* C1: the sum of the token amounts transferred by all successful claim_tokens
\* calls is at most total_token_pool.
C1_ClaimsWithinPool == claimed_total <= ds.total_token_pool

\* C2: once tokens_claimed is true for a user's commitment record, no later
\* operation sets it back to false.
C2_ClaimedFlagIsLatch ==
    [][\A u \in Identities : uc[u].tokens_claimed => uc'[u].tokens_claimed]_vars

\* C3: whenever commit_resources is accepted, the triple the Ed25519 program
\* validated in the located instruction is the triple the commit expected.
C3_AcceptedTripleWasValidated ==
    \A c \in CommitCalls : \A r \in CommitOutcomes(c) :
        r.err = "Ok" => ExpectedTripleValidated(c)

\* C4: total_sol_raised equals the sum of sol_amount over the commitment
\* records and the sum of the sol_amount arguments of the accepted commits, and
\* total_score equals the sum of score over the commitment records.
C4_TotalsAreExactSums ==
    /\ ds.total_sol_raised = SumOver([u \in Identities |-> uc[u].sol_amount], Identities)
    /\ ds.total_sol_raised = committed_total
    /\ ds.total_score = SumOver([u \in Identities |-> uc[u].score], Identities)

C4_Witness ==
    /\ Len(accepted) >= 2
    /\ \A u \in Identities : uc[u].sol_amount > 0
    /\ ds.total_sol_raised = committed_total
    /\ ds.total_sol_raised >= 2

\* C5: the nonces of the accepted commits are strictly increasing in acceptance
\* order, so no nonce is the nonce of two accepted commits.
C5_AcceptedNoncesIncrease ==
    \A i, j \in 1..Len(accepted) : i < j => accepted[i] < accepted[j]

C5_Witness ==
    /\ Len(accepted) >= 2
    /\ \E c \in CommitCalls : \E r \in CommitOutcomes(c) :
           /\ c.kind = "honest"
           /\ c.nonce = accepted[1]
           /\ r.err = "InvalidNonce"

\* C6 as stated: a commit whose nonce is at most nonce_counter always fails with
\* InvalidNonce.
C6_StaleNonceIsInvalidNonce ==
    (ba.initialized /\ ds.initialized) =>
        \A c \in CommitCalls : c.nonce <= ba.nonce_counter =>
            \A r \in CommitOutcomes(c) : r.err = "InvalidNonce"

\* C6 amended: a commit whose nonce is at most nonce_counter always fails and
\* leaves all state unchanged, whatever its proof; it fails with InvalidNonce
\* when the backend is active and with BackendInactive when it is not.
C6_StaleNonceRejected ==
    (ba.initialized /\ ds.initialized) =>
        \A c \in CommitCalls : c.nonce <= ba.nonce_counter =>
            \A r \in CommitOutcomes(c) :
                /\ r.err = (IF ba.is_active THEN "InvalidNonce" ELSE "BackendInactive")
                /\ Persisted(r) = Before

C6_Witness ==
    /\ ba.initialized /\ ds.initialized /\ ds.is_active /\ ba.is_active
    /\ \E c \in CommitCalls : \E r \in CommitOutcomes(c) :
           /\ c.kind = "honest" /\ c.expiry > now
           /\ c.nonce >= 1 /\ c.nonce = ba.nonce_counter
           /\ r.err = "InvalidNonce"

\* C7: no operation lowers nonce_counter, and after an accepted commit it equals
\* that commit's nonce.
C7_NonceCounterNeverLowered ==
    [][/\ ba'.nonce_counter >= ba.nonce_counter
       /\ accepted' # accepted => ba'.nonce_counter = accepted'[Len(accepted')]]_vars

C7_Witness ==
    /\ Len(accepted) >= 1
    /\ ba.nonce_counter = accepted[Len(accepted)]
    /\ ba.nonce_counter >= 2
    /\ ~ba.is_active

C9_AfterTargetOnlyTwoErrors ==
    latched =>
        \A c \in CommitCalls : \A r \in CommitOutcomes(c) :
            r.err \in {"DistributionNotActive", "TargetSolReached"}

\* C9 amended: a commit that takes total_sol_raised from below the target to at
\* or above it leaves is_active false, and from then on every commit attempt
\* fails: with DistributionNotActive when it passes the proof checks, and with
\* the error of the first proof check it fails otherwise.
C9_AfterTargetEveryCommitFails ==
    latched =>
        /\ ~ds.is_active
        /\ \A c \in CommitCalls : \A r \in CommitOutcomes(c) :
               /\ r.err \in {"BackendInactive", "InvalidNonce", "ProofExpired",
                             "Ed25519VerificationFailed", "DistributionNotActive"}
               /\ (/\ ba.is_active /\ c.nonce > ba.nonce_counter /\ c.expiry > now
                   /\ c.kind = "honest") => r.err = "DistributionNotActive"

C9_Witness ==
    /\ latched
    /\ \E c \in CommitCalls : \E r \in CommitOutcomes(c) :
           c.kind = "honest" /\ r.err = "DistributionNotActive"
    /\ \E c \in CommitCalls : \E r \in CommitOutcomes(c) :
           c.kind = "honest" /\ r.err = "InvalidNonce"

\* C10: in commit_resources every addition, multiplication or narrowing whose
\* true result exceeds the representable range aborts with CalculationOverflow.
C10_OverflowAborts ==
    \A c \in CommitCalls : \A r \in CommitOutcomes(c) :
        r.exceeded => r.err = "CalculationOverflow"

\* C11: a commit is accepted only if its sol_amount is at least
\* floor(points * rate / PRECISION_FACTOR) computed over the integers.
C11_AcceptedCoversExactFloor ==
    \A c \in CommitCalls : \A r \in CommitOutcomes(c) :
        r.err = "Ok" => c.sol_amount >= (c.points * ds.rate) \div PRECISION_FACTOR

\* C12: a successful claim_tokens on a commitment record transfers exactly
\* floor(total_token_pool * score / total_score) of the ledger values at the
\* time of the claim, and claim_tokens never succeeds while total_score is 0: on
\* an existing record it fails with NoCommitments.
C12_ClaimIsExactShare ==
    \A u \in Identities :
        LET r == claim_tokens_handler(u)
        IN  /\ r.err = "Ok" =>
                /\ ds.total_score > 0
                /\ r.amount = (ds.total_token_pool * uc[u].score) \div ds.total_score
                /\ r.vault.amount = vault.amount - r.amount
            /\ ds.total_score = 0 =>
                /\ r.err # "Ok"
                /\ (ds.initialized /\ vault.initialized /\ uc[u].initialized)
                       => r.err = "NoCommitments"

C12_Witness ==
    \E u \in Identities :
        /\ claim_tokens_handler(u).err = "Ok"
        /\ (ds.total_token_pool * uc[u].score) % ds.total_score # 0
        /\ claimed_total > 0

\* the users that hold a commitment record
Holders == {u \in Identities : uc[u].initialized}

\* what each holder receives from a claim on the ledger as it stands
Shares ==
    [u \in Holders |-> token_share(ds.total_token_pool, uc[u].score, ds.total_score).value]

\* C13: with the pool and the scores fixed, a claim leaves the pool and every
\* score as they are, so when each of the n holders of a commitment claims once
\* they receive their shares of the same ledger, and what remains of the pool,
\* total_token_pool minus the sum of the n claims, is at least 0 and at most n.
C13_DustWithinHolders ==
    (ds.initialized /\ ds.total_score > 0) =>
        /\ \A u \in Holders :
              LET r == claim_tokens_handler(u)
              IN  r.err = "Ok" =>
                      /\ r.amount = Shares[u]
                      /\ r.ds = ds
                      /\ \A v \in Identities : r.uc[v].score = uc[v].score
        /\ ds.total_token_pool - SumOver(Shares, Holders) \in 0..Cardinality(Holders)

C13_Witness ==
    /\ Cardinality(Holders) = 2
    /\ \A u \in Holders : uc[u].tokens_claimed /\ uc[u].score > 0
    /\ ds.total_token_pool - SumOver(Shares, Holders) = 1
    /\ claimed_total = SumOver(Shares, Holders)

\* C14: claim_tokens on a commitment record whose tokens_claimed is already
\* true always fails with AlreadyClaimed, whatever total_score is, transfers
\* nothing and changes no state.
C14_SecondClaimIsAlreadyClaimed ==
    \A u \in Identities :
        uc[u].tokens_claimed =>
            LET r == claim_tokens_handler(u)
            IN  /\ r.err = "AlreadyClaimed"
                /\ r.amount = 0
                /\ Persisted(r) = Before

C14_Witness ==
    \E u \in Identities :
        /\ uc[u].tokens_claimed
        /\ claimed_total > 0
        /\ vault.amount > 0
        /\ token_share(ds.total_token_pool, uc[u].score, ds.total_score).value > 0
        /\ claim_tokens_handler(u).err = "AlreadyClaimed"

\* A proof the backend issued for the message m: the Ed25519 instruction ahead
\* of the commit records the backend key, its signature of m, and m.
IssuedProof(m) ==
    LET pk == ba.backend_pubkey
    IN  [signature |-> Sign(pk, m),
         instructions |-> [current_index |-> 1,
             tx |-> <<Ed25519Ix(1, 112 + Len(m), "fixed", to_bytes(pk), Sign(pk, m), m,
                                NoTriple), SelfIx>>]]

\* the (user, points, nonce, expiry) other than those of c, in one field
OtherTuples(c) ==
    {[c EXCEPT !.user = u] : u \in Identities \ {c.user}}
        \cup {[c EXCEPT !.points = p] : p \in (0..U64_MAX) \ {c.points}}
        \cup {[c EXCEPT !.nonce = n] : n \in NonceArgs \ {c.nonce}}
        \cup {[c EXCEPT !.expiry = e] : e \in Times \ {c.expiry}}

Damages == {"dropped", "added", "changed"}

\* the message of c with its last byte dropped, a byte added, its last byte changed
Damaged(c, damage) ==
    LET m == create_proof_message(c.user, c.points, c.nonce, c.expiry)
    IN  CASE damage = "dropped" -> SubSeq(m, 1, Len(m) - 1)
          [] damage = "added" -> Append(m, 0)
          [] damage = "changed" -> [m EXCEPT ![Len(m)] = (m[Len(m)] + 1) % 256]

\* the message issued for the tuple t
IssuedFor(t) == create_proof_message(t.user, t.points, t.nonce, t.expiry)

\* the outcomes of the commit call c made with a proof issued for m
OutcomesWithProof(c, m) ==
    commit_resources_handler(c.user, c.points, c.sol_amount, IssuedProof(m).signature,
                             c.nonce, c.expiry, IssuedProof(m).instructions)

\* the error of the first of the checks up to the verification that fails
\* when the verification itself does
FirstProofError(c) ==
    IF ~ba.is_active THEN "BackendInactive"
    ELSE IF ~(c.nonce > ba.nonce_counter) THEN "InvalidNonce"
    ELSE IF ~(c.expiry > now) THEN "ProofExpired"
    ELSE "Ed25519VerificationFailed"

\* The calls whose proof is replaced below; sol_amount is no part of the proof
\* message and is not read before the verification, so one value stands for all.
HonestCalls == {c \in CommitCalls : c.kind = "honest" /\ c.sol_amount = U64_MAX}

\* C15 as stated: a commit whose canonical proof message differs in a byte or in
\* length from the message of the nearest preceding Ed25519 instruction always
\* fails with Ed25519VerificationFailed.
C15_MismatchIsVerificationFailed ==
    (ba.initialized /\ ds.initialized) =>
        \A c \in HonestCalls :
            /\ \A t \in OtherTuples(c) : \A r \in OutcomesWithProof(c, IssuedFor(t)) :
                   r.err = "Ed25519VerificationFailed"
            /\ \A d \in Damages : \A r \in OutcomesWithProof(c, Damaged(c, d)) :
                   r.err = "Ed25519VerificationFailed"

\* C15 amended: such a commit always fails and changes nothing, so a proof
\* issued for one (user, points, nonce, expiry) cannot be used with another; it
\* fails with Ed25519VerificationFailed when the backend is active, the nonce is
\* above nonce_counter and the proof has not expired, and with the error of the
\* first of those three checks it fails otherwise.
C15_MismatchAlwaysFails ==
    (ba.initialized /\ ds.initialized) =>
        \A c \in HonestCalls :
            /\ \A t \in OtherTuples(c) : \A r \in OutcomesWithProof(c, IssuedFor(t)) :
                   r.err = FirstProofError(c) /\ Persisted(r) = Before
            /\ \A d \in Damages : \A r \in OutcomesWithProof(c, Damaged(c, d)) :
                   r.err = FirstProofError(c) /\ Persisted(r) = Before

C15_Witness ==
    /\ ba.initialized /\ ds.initialized
    /\ \E c \in HonestCalls :
           /\ \E r \in CommitOutcomes(c) : r.err = "Ok"
           /\ \A t \in OtherTuples(c) :
                  /\ WellFormed(IssuedProof(IssuedFor(t)))
                  /\ \A r \in OutcomesWithProof(c, IssuedFor(t)) :
                         r.err = "Ed25519VerificationFailed"
           /\ \A d \in Damages : \A r \in OutcomesWithProof(c, Damaged(c, d)) :
                  r.err = "Ed25519VerificationFailed"

\* C16: initialize_backend_authority succeeds only when its caller is the
\* authority of the distribution ledger.
C16_BackendInitByLedgerAuthority ==
    ds.initialized =>
        \A a \in Identities, k \in BackendKeys :
            initialize_backend_authority_handler(a, k).err = "Ok" => a = ds.authority

\* the outcomes of the calls gated to the authority of the distribution ledger
LedgerAdminOutcomes(a) ==
    {set_commit_end_time_handler(a, t) : t \in Times}
        \cup UNION {withdraw_sol_handler(a, n) : n \in WithdrawArgs}
        \cup {fund_vault_handler(a, n) : n \in FundArgs}

\* the outcomes of the calls gated to the authority of the backend authority record
BackendAdminOutcomes(a) ==
    {update_backend_authority_handler(a, f) : f \in BOOLEAN}
        \cup {update_backend_pubkey_handler(a, k) : k \in BackendKeys}

\* C17 as stated: a caller other than the authority is rejected with Unauthorized.
C17_OtherCallerIsUnauthorized ==
    \A a \in Identities :
        /\ (ds.initialized /\ vault.initialized /\ a # ds.authority) =>
               \A r \in LedgerAdminOutcomes(a) : r.err = "Unauthorized"
        /\ (ba.initialized /\ a # ba.authority) =>
               \A r \in BackendAdminOutcomes(a) : r.err = "Unauthorized"

\* C17 amended: set_commit_end_time, withdraw_sol and fund_vault succeed only
\* for the authority of the distribution ledger, update_backend_authority and
\* update_backend_pubkey only for the authority of the backend authority
\* record; any other caller changes no state and is rejected by the has_one
\* constraint of the accounts (ConstraintHasOne), ahead of the handler's own
\* Unauthorized check.
C17_AdminCallsAreGated ==
    \A a \in Identities :
        /\ \A r \in LedgerAdminOutcomes(a) :
               /\ r.err = "Ok" => (ds.initialized /\ a = ds.authority)
               /\ (ds.initialized /\ vault.initialized /\ a # ds.authority) =>
                      (r.err = "ConstraintHasOne" /\ Persisted(r) = Before)
        /\ \A r \in BackendAdminOutcomes(a) :
               /\ r.err = "Ok" => (ba.initialized /\ a = ba.authority)
               /\ (ba.initialized /\ a # ba.authority) =>
                      (r.err = "ConstraintHasOne" /\ Persisted(r) = Before)

C17_Witness ==
    /\ ds.initialized /\ vault.initialized /\ ba.initialized
    /\ ds.authority # ba.authority
    /\ \A r \in {set_commit_end_time_handler(ds.authority, t) : t \in Times}
                    \cup {fund_vault_handler(ds.authority, 1)}
                    \cup {withdraw_sol_at(ds.authority, 1, b) : b \in BuildProfiles}
                    \cup BackendAdminOutcomes(ba.authority) : r.err = "Ok"
    /\ \A r \in LedgerAdminOutcomes(ba.authority) \cup BackendAdminOutcomes(ds.authority) :
           r.err = "ConstraintHasOne"

\* the withdrawal of amount is allowed: the commit period has ended or the
\* target is reached, and the custody balance covers amount and the rent
WithdrawAllowed(amount) ==
    /\ now >= ds.commit_end_time \/ ds.total_sol_raised >= ds.target_raise_sol
    /\ ds.lamports >= amount + RentExemptMinimum

\* C18: for every 64-bit amount, withdraw_sol(amount) by the authority succeeds
\* exactly when the withdrawal is allowed, whatever is_active is; otherwise it
\* fails with WithdrawConditionsNotMet or InsufficientBalance; and a successful
\* withdrawal leaves the custody balance at or above the rent-exempt minimum.
C18_WithdrawExactlyWhenAllowed ==
    ds.initialized =>
        \A amount \in 0..U64_MAX : \A r \in withdraw_sol_handler(ds.authority, amount) :
            /\ r.err = "Ok" <=> WithdrawAllowed(amount)
            /\ r.err # "Ok" => r.err \in {"WithdrawConditionsNotMet", "InsufficientBalance"}
            /\ r.err = "Ok" => r.ds.lamports >= RentExemptMinimum

\* m is laid out as the tag, the 32 bytes of the user, and points, nonce and
\* expiry in 8 little-endian bytes each, 79 bytes in all
LaidOut(m, t) ==
    /\ Len(m) = 79
    /\ SubSeq(m, 1, 23) = PROOF_TAG
    /\ SubSeq(m, 24, 55) = to_bytes(t.user)
    /\ from_le_bytes(SubSeq(m, 56, 63)) = t.points
    /\ from_le_bytes(SubSeq(m, 64, 71)) = t.nonce
    /\ from_le_bytes(SubSeq(m, 72, 79)) = t.expiry

\* C19: create_proof_message(user, points, nonce, expiry) is the 79-byte
\* concatenation of the tag, the 32 identity bytes, and points, nonce, expiry as
\* 8 little-endian bytes each, in that order; equal tuples give equal messages,
\* and two tuples give the same message only if they are equal in every field.
C19_MessageLayoutInjective ==
    (canonicalized # <<>> /\ canonicalized.bytes # <<>>) =>
        LET t == canonicalized.args
            m == canonicalized.bytes
        IN  /\ LaidOut(m[1], t[1])
            /\ LaidOut(m[2], t[2])
            /\ t[1] = t[2] => m[1] = m[2]
            /\ m[1] = m[2] => t[1] = t[2]

C19_Witness ==
    /\ canonicalized # <<>>
    /\ canonicalized.bytes # <<>>
    /\ canonicalized.args[1].user # canonicalized.args[2].user
    /\ canonicalized.args[1].points = canonicalized.args[2].nonce
    /\ canonicalized.args[1].nonce = canonicalized.args[2].points
    /\ canonicalized.args[1].points # canonicalized.args[1].nonce
    /\ canonicalized.bytes[1] # canonicalized.bytes[2]
    /\ Len(canonicalized.bytes[1]) = Len(canonicalized.bytes[2])

\* required_sol as commit_resources computes it
required_sol_of(points) == as_u64((points * ds.rate) \div PRECISION_FACTOR)

\* the error of the first of the eight preconditions, in the order of the
\* claim, that the call c fails; "Ok" when it passes them all
FirstFailingCheck(c) ==
    IF ~ba.is_active THEN "BackendInactive"
    ELSE IF ~(c.nonce > ba.nonce_counter) THEN "InvalidNonce"
    ELSE IF ~(c.expiry > now) THEN "ProofExpired"
    ELSE IF verify_ed25519_signature(ProofOf(c).signature,
                create_proof_message(c.user, c.points, c.nonce, c.expiry),
                ba.backend_pubkey, ProofOf(c).instructions) # "Ok"
         THEN "Ed25519VerificationFailed"
    ELSE IF ~ds.is_active THEN "DistributionNotActive"
    ELSE IF ~(now < ds.commit_end_time) THEN "CommitPeriodEnded"
    ELSE IF ~(ds.total_sol_raised < ds.target_raise_sol) THEN "TargetSolReached"
    ELSE IF ~(c.sol_amount >= required_sol_of(c.points)) THEN "InsufficientSolCommitment"
    ELSE "Ok"

\* how many of the eight preconditions the call c fails
FailedChecks(c) ==
    Cardinality({k \in 1..8 :
        \/ k = 1 /\ ~ba.is_active
        \/ k = 2 /\ ~(c.nonce > ba.nonce_counter)
        \/ k = 3 /\ ~(c.expiry > now)
        \/ k = 4 /\ c.kind = "other_proof"
        \/ k = 5 /\ ~ds.is_active
        \/ k = 6 /\ ~(now < ds.commit_end_time)
        \/ k = 7 /\ ~(ds.total_sol_raised < ds.target_raise_sol)
        \/ k = 8 /\ ~(c.sol_amount >= required_sol_of(c.points))})

\* C20: commit_resources evaluates its preconditions in the order backend
\* active, nonce > nonce_counter, expiry > now, Ed25519 instruction match,
\* distribution active, now < commit_end_time, total_sol_raised <
\* target_raise_sol, sol_amount >= required_sol; a call that fails one or several
\* of them reports the error of the first it fails in this order, and a call
\* that reports one of the eight errors reports that of the first it fails.
C20_FirstFailingCheckReported ==
    (ba.initialized /\ ds.initialized) =>
        \A c \in CommitCalls : \A r \in CommitOutcomes(c) :
            /\ FirstFailingCheck(c) # "Ok" => r.err = FirstFailingCheck(c)
            /\ r.err \in {"BackendInactive", "InvalidNonce", "ProofExpired",
                          "Ed25519VerificationFailed", "DistributionNotActive",
                          "CommitPeriodEnded", "TargetSolReached",
                          "InsufficientSolCommitment"} => r.err = FirstFailingCheck(c)

C20_Witness ==
    /\ ba.initialized /\ ds.initialized /\ ba.is_active
    /\ \E c \in CommitCalls : \E r \in CommitOutcomes(c) :
           FailedChecks(c) >= 5 /\ r.err = "InvalidNonce"
    /\ \E c \in CommitCalls : \E r \in CommitOutcomes(c) :
           FailedChecks(c) >= 2 /\ r.err = "CommitPeriodEnded"

\* an instruction of some other program
OtherIx == [SelfIx EXCEPT !.program_id = "other_program"]

\* the Ed25519 instruction that records the triple the call c expects
MatchingIx(c) ==
    LET m == create_proof_message(c.user, c.points, c.nonce, c.expiry)
        pk == ba.backend_pubkey
    IN  Ed25519Ix(1, 112 + Len(m), "fixed", to_bytes(pk), Sign(pk, m), m, NoTriple)

Flaws ==
    {"empty", "two_signatures", "short", "wrong_signature", "wrong_key", "wrong_message"}

\* An Ed25519 instruction that executes successfully and that the commit must
\* refuse: no data, a signature count of 2, fewer than 112 bytes, or one of the
\* three fields at the fixed positions other than the expected one (its header
\* points at a triple the user signed).
FlawedIx(c, flaw) ==
    LET m == create_proof_message(c.user, c.points, c.nonce, c.expiry)
        pk == ba.backend_pubkey
        own == <<Sign(c.user, m), to_bytes(c.user), m>>
        len == 112 + Len(m)
    IN  CASE flaw = "empty" ->
               Ed25519Ix(0, 0, "fixed", to_bytes(NoKey), Garbage, <<>>, NoTriple)
          [] flaw = "two_signatures" ->
               Ed25519Ix(2, len, "elsewhere", to_bytes(pk), Sign(pk, m), m, own)
          [] flaw = "short" ->
               Ed25519Ix(1, 111, "elsewhere", to_bytes(pk), Garbage, <<>>, own)
          [] flaw = "wrong_signature" ->
               Ed25519Ix(1, len, "elsewhere", to_bytes(pk), Sign(c.user, m), m, own)
          [] flaw = "wrong_key" ->
               Ed25519Ix(1, len, "elsewhere", to_bytes(c.user), Sign(pk, m), m, own)
          [] flaw = "wrong_message" ->
               Ed25519Ix(1, len, "elsewhere", to_bytes(pk), Sign(pk, m), Tail(m), own)

\* the outcomes of the call c, with the signature the backend issued for it,
\* made as the instruction of index current_index of the batch tx
OutcomesInBatch(c, tx, current_index) ==
    commit_resources_handler(c.user, c.points, c.sol_amount,
        Sign(ba.backend_pubkey, create_proof_message(c.user, c.points, c.nonce, c.expiry)),
        c.nonce, c.expiry, [current_index |-> current_index, tx |-> tx])

\* C21: the commit looks only at the nearest Ed25519 instruction before it in
\* the batch, adjacent or not.  It fails when there is none before it, even
\* with a matching one after it, and when the nearest one has a signature count
\* other than 1, fewer than 112 bytes or a mismatching field, even with a
\* matching one earlier in the batch; and it is decided by the nearest one when
\* that one matches, whatever stands earlier or later.
C21_NearestRecordDecides ==
    (ba.initialized /\ ds.initialized) =>
        \A c \in HonestCalls :
            /\ \A flaw \in Flaws :
                   \A r \in OutcomesInBatch(c, <<MatchingIx(c), FlawedIx(c, flaw), SelfIx>>, 2) :
                       r.err = FirstProofError(c)
            /\ \A r \in OutcomesInBatch(c, <<OtherIx, SelfIx, MatchingIx(c)>>, 1) :
                   r.err = FirstProofError(c)
            /\ OutcomesInBatch(c, <<FlawedIx(c, "wrong_message"), MatchingIx(c), OtherIx,
                                    SelfIx, FlawedIx(c, "wrong_key")>>, 3)
                   = CommitOutcomes(c)

C21_Witness ==
    /\ ba.initialized /\ ds.initialized
    /\ \E c \in HonestCalls :
           /\ \E r \in CommitOutcomes(c) : r.err = "Ok"
           /\ \A flaw \in Flaws :
                  /\ Executed(FlawedIx(c, flaw)) /\ Executed(MatchingIx(c))
                  /\ \A r \in OutcomesInBatch(c, <<MatchingIx(c), FlawedIx(c, flaw),
                                                  SelfIx>>, 2) :
                         r.err = "Ed25519VerificationFailed"
           /\ \A r \in OutcomesInBatch(c, <<OtherIx, SelfIx, MatchingIx(c)>>, 1) :
                  r.err = "Ed25519VerificationFailed"

\* C22: a commitment record is terminal once claimed: no step raises the
\* points, sol_amount or score of a record whose tokens have been claimed.
C22_ClaimedRecordIsTerminal ==
    [][\A u \in Identities :
           uc[u].tokens_claimed =>
               /\ uc'[u].points <= uc[u].points
               /\ uc'[u].sol_amount <= uc[u].sol_amount
               /\ uc'[u].score <= uc[u].score]_vars

\* C23: is_active is true after initialize, and once it is false no step sets
\* it back to true.
C23_ActiveIsOneWayLatch ==
    [][/\ (~ds.initialized /\ ds'.initialized) => ds'.is_active
       /\ (ds.initialized /\ ~ds.is_active) => ~ds'.is_active]_vars

C23_Witness ==
    /\ ds.initialized /\ ~ds.is_active
    /\ ds.commit_end_time > now
    /\ ds.lamports < RentExemptMinimum + committed_total
    /\ claimed_total > 0
    /\ ~ba.is_active

\* C24: with its accounts in place, claim_tokens succeeds exactly when the
\* record is unclaimed, total_score > 0 and the vault holds the share; neither
\* is_active nor the clock has a say, so a claim can succeed while commits that
\* change total_score are still accepted.
C24_ClaimGatedOnlyOnRecordAndScore ==
    \A u \in Identities :
        (ds.initialized /\ vault.initialized /\ uc[u].initialized) =>
            (claim_tokens_handler(u).err = "Ok"
                <=> /\ ~uc[u].tokens_claimed
                    /\ ds.total_score > 0
                    /\ vault.amount >= (ds.total_token_pool * uc[u].score) \div ds.total_score)

C24_Witness ==
    /\ ds.is_active /\ now < ds.commit_end_time
    /\ \E u \in Identities :
           /\ claim_tokens_handler(u).err = "Ok"
           /\ claim_tokens_handler(u).amount > 0
    /\ \E c \in CommitCalls : \E r \in CommitOutcomes(c) :
           r.err = "Ok" /\ r.ds.total_score > ds.total_score

\* C25: total_token_pool is the sum of the amounts the successful fund_vault
\* calls moved from the authority's token account into the vault.
C25_PoolIsSumOfDeposits ==
    ds.initialized => ds.total_token_pool = TokenSupply - funder_tokens

\* C26: every user's score is that user's cumulative sol_amount, whatever points
\* were committed, and total_score is total_sol_raised, the sum of the
\* sol_amount of the accepted commits.
C26_ScoreIsCumulativeSol ==
    /\ \A u \in Identities : uc[u].score = uc[u].sol_amount
    /\ ds.total_score = ds.total_sol_raised
    /\ ds.total_score = committed_total

C26_Witness ==
    /\ Len(accepted) >= 2
    /\ \A u \in Identities :
           /\ uc[u].score > 0
           /\ uc[u].points # uc[u].score
    /\ ds.total_score = uc["alice"].sol_amount + uc["bob"].sol_amount

\* C27: every user's score is at most total_score, so a claim amount is at most
\* total_token_pool, its narrowing to 64 bits keeps the quotient, and
\* claim_tokens never fails with CalculationOverflow.
C27_ShareWithinPool ==
    \A u \in Identities :
        /\ uc[u].score <= ds.total_score
        /\ claim_tokens_handler(u).err # "CalculationOverflow"
        /\ ds.total_score > 0 =>
               LET quotient == (ds.total_token_pool * uc[u].score) \div ds.total_score
                   share == token_share(ds.total_token_pool, uc[u].score, ds.total_score)
               IN  /\ quotient <= ds.total_token_pool
                   /\ quotient <= U64_MAX
                   /\ share.some /\ share.value = quotient

C27_Witness ==
    /\ ds.total_token_pool = TokenSupply
    /\ \A u \in Identities :
           /\ uc[u].initialized
           /\ uc[u].score > 0 /\ uc[u].score < ds.total_score
           /\ claim_tokens_handler(u).err = "Ok"
           /\ claim_tokens_handler(u).amount > 0

\* C28: with target_raise_sol > 0, is_active is true exactly while
\* total_sol_raised < target_raise_sol, so no commit_resources call returns
\* TargetSolReached.
C28_ActiveIffBelowTarget ==
    (ds.initialized /\ ds.target_raise_sol > 0) =>
        /\ ds.is_active <=> ds.total_sol_raised < ds.target_raise_sol
        /\ \A c \in CommitCalls : \A r \in CommitOutcomes(c) : r.err # "TargetSolReached"

C28_Witness ==
    /\ ds.initialized /\ ds.target_raise_sol > 0
    /\ ~ds.is_active
    /\ ds.total_sol_raised > ds.target_raise_sol
    /\ now < ds.commit_end_time
    /\ \E c \in CommitCalls : \E r \in CommitOutcomes(c) : r.err = "DistributionNotActive"

\* a withdraw_sol has succeeded: the custody balance is below the rent and
\* the contributions it received
Withdrawn == ds.initialized /\ ds.lamports < RentExemptMinimum + committed_total

\* C29: closing is permanent with respect to commits: once a withdraw_sol has
\* succeeded, which takes now >= commit_end_time or total_sol_raised >=
\* target_raise_sol, no later step is an accepted commit, whatever
\* administrative operations come in between.
C29_NoCommitAfterWithdrawal ==
    [][Withdrawn => accepted' = accepted]_vars

\* what only an accepted commit changes: the totals, the nonce counter and the
\* points, sol_amount and score of every user
Accumulated(d, b, u) ==
    <<d.total_score, d.total_sol_raised, b.nonce_counter,
      [x \in Identities |-> <<u[x].points, u[x].sol_amount, u[x].score>>]>>

\* r is a failure, or it leaves the accounts as d, b and u
Leaves(r, d, b, u) == r.err = "Ok" => (r.ds = d /\ r.ba = b /\ r.uc = u)

\* C30: of the ledger, the backend record and the commitment records, a
\* successful claim_tokens changes only the claimant's tokens_claimed,
\* withdraw_sol only the custody balance, set_commit_end_time only
\* commit_end_time, fund_vault only total_token_pool, update_backend_authority
\* only the backend is_active and update_backend_pubkey only backend_pubkey; and
\* no operation other than commit_resources changes total_score,
\* total_sol_raised, nonce_counter or a user's points, sol_amount or score.
C30_FrameOfEachOperation ==
    /\ \A u \in Identities :
           Leaves(claim_tokens_handler(u), ds, ba, [uc EXCEPT ![u].tokens_claimed = TRUE])
    /\ \A a \in Identities :
           /\ \A n \in WithdrawArgs : \A r \in withdraw_sol_handler(a, n) :
                  Leaves(r, [ds EXCEPT !.lamports = r.ds.lamports], ba, uc)
           /\ \A t \in Times :
                  Leaves(set_commit_end_time_handler(a, t),
                         [ds EXCEPT !.commit_end_time = t], ba, uc)
           /\ \A n \in FundArgs :
                  LET r == fund_vault_handler(a, n)
                  IN  Leaves(r, [ds EXCEPT !.total_token_pool = r.ds.total_token_pool],
                             ba, uc)
           /\ \A f \in BOOLEAN :
                  Leaves(update_backend_authority_handler(a, f), ds,
                         [ba EXCEPT !.is_active = f], uc)
           /\ \A k \in BackendKeys :
                  /\ Leaves(update_backend_pubkey_handler(a, k), ds,
                            [ba EXCEPT !.backend_pubkey = k], uc)
                  /\ LET r == initialize_backend_authority_handler(a, k)
                     IN  r.err = "Ok" =>
                             Accumulated(r.ds, r.ba, r.uc) = Accumulated(ds, ba, uc)
           /\ LET r == create_token_vault_handler(a)
              IN  r.err = "Ok" => Accumulated(r.ds, r.ba, r.uc) = Accumulated(ds, ba, uc)
           /\ \A t \in Times, x \in Rates, g \in Targets :
                  LET r == initialize_handler(a, t, x, g)
                  IN  r.err = "Ok" =>
                          Accumulated(r.ds, r.ba, r.uc) = Accumulated(ds, ba, uc)

C30_Witness ==
    /\ ds.total_score > 0 /\ ba.nonce_counter > 0 /\ ds.total_token_pool > 0
    /\ \E u \in Identities :
           claim_tokens_handler(u).err = "Ok" /\ claim_tokens_handler(u).amount > 0
    /\ \E r \in withdraw_sol_handler(ds.authority, 1) : r.err = "Ok"
    /\ fund_vault_handler(ds.authority, 1).err = "Ok"
    /\ set_commit_end_time_handler(ds.authority, 1).err = "Ok"
    /\ update_backend_authority_handler(ba.authority, FALSE).err = "Ok"
    /\ update_backend_pubkey_handler(ba.authority, "bk2").err = "Ok"

====
